---- MODULE Spec2Model ----
(***************************************************************************)
(* CommunitySafe (src/app.py): a Flask application in which the public     *)
(* files hazard reports (POST /api/report) and an administrator, after     *)
(* logging in, marks them resolved (POST /admin/resolve/<id>).             *)
(*                                                                         *)
(* The state is the SQLite tables hazard_reports and admin, the two upload *)
(* directories, the browser session of each client and the wall clock.     *)
(* Every route handler is one action.  Strings that the handlers parse     *)
(* (image data URIs) are sequences of tokens; the handlers' startswith,    *)
(* split and base64 decoding are computed on them.                         *)
(***************************************************************************)
EXTENDS Integers, Sequences, FiniteSets, TLC

\* ---------------------------------------------------------------- bounds
\* At most this many rows are inserted into hazard_reports.
MaxReports == 1
\* The clock runs from 0 to MaxClock, in ticks of half a second.
MaxClock == 1

VARIABLES
    hazard_reports,   \* the hazard_reports table: a sequence of rows, ordered by id
    admin,            \* the admin table: a set of rows
    session,          \* session[c]: the Flask session (a dict) of client c
    uploads_before,   \* UPLOAD_FOLDER_BEFORE: filename -> bytes
    uploads_after,    \* UPLOAD_FOLDER_AFTER: filename -> bytes
    clock,            \* datetime.now(), in ticks
    request,          \* the request handled by the last step
    response          \* the response of the last step

vars == <<hazard_reports, admin, session, uploads_before, uploads_after,
          clock, request, response>>

\* ------------------------------------------------------------ JSON values
\* A JSON value as request.json yields it: None, a number or a str.
JNull == [t |-> "null", s |-> <<>>, n |-> 0]
JNum(n) == [t |-> "num", s |-> <<>>, n |-> n]
JStr(s) == [t |-> "str", s |-> s, n |-> 0]

\* Python truthiness, as `not data[field]` and `not after_image_data` use it.
Truthy(v) ==
    CASE v.t = "null" -> FALSE
      [] v.t = "num" -> v.n # 0
      [] v.t = "str" -> v.s # <<>>

\* SQL NULL and a non-NULL column value.
NULL == <<>>
NotNull(v) == <<v>>

\* ------------------------------------------------------- string functions
\* str.startswith(prefix)
StartsWith(s, prefix) ==
    /\ Len(s) >= Len(prefix)
    /\ SubSeq(s, 1, Len(prefix)) = prefix

\* The index of the first occurrence of token sep in s, 0 when there is none.
RECURSIVE FindFrom(_, _, _)
FindFrom(s, sep, i) ==
    IF i > Len(s) THEN 0
    ELSE IF s[i] = sep THEN i
    ELSE FindFrom(s, sep, i + 1)

\* str.split(sep): the list of the pieces of s between occurrences of sep.
RECURSIVE Split(_, _)
Split(s, sep) ==
    LET i == FindFrom(s, sep, 1)
    IN IF i = 0 THEN <<s>>
       ELSE <<SubSeq(s, 1, i - 1)>> \o Split(SubSeq(s, i + 1, Len(s)), sep)

\* str.split(sep, 1): at most one split, at the first occurrence of sep.
SplitOnce(s, sep) ==
    LET i == FindFrom(s, sep, 1)
    IN IF i = 0 THEN <<s>>
       ELSE <<SubSeq(s, 1, i - 1), SubSeq(s, i + 1, Len(s))>>

\* ---------------------------------------------------------------- base64
\* The value of a character of the base64 alphabet (those the inputs use),
\* -1 for the padding character.
B64Value(c) ==
    CASE c = "A" -> 0
      [] c = "Q" -> 16
      [] c = "R" -> 17
      [] c = "g" -> 32
      [] c = "=" -> -1

\* One group of four characters decoded to its bytes; <<-1>> marks
\* binascii.Error.  Bits left over before the padding are dropped.
B64Quad(q) ==
    LET a == B64Value(q[1])
        b == B64Value(q[2])
        c == B64Value(q[3])
        d == B64Value(q[4])
    IN  IF a < 0 \/ b < 0 THEN <<-1>>
        ELSE IF c < 0 THEN (IF d < 0 THEN <<(a * 4 + b \div 16) % 256>> ELSE <<-1>>)
        ELSE IF d < 0 THEN <<(a * 4 + b \div 16) % 256,
                             ((b % 16) * 16 + c \div 4) % 256>>
        ELSE <<(a * 4 + b \div 16) % 256,
               ((b % 16) * 16 + c \div 4) % 256,
               ((c % 4) * 64 + d) % 256>>

\* base64.b64decode(s): [ok, bytes]; ok is FALSE where it raises
\* binascii.Error (incorrect padding).
RECURSIVE b64decode(_)
b64decode(s) ==
    IF s = <<>> THEN [ok |-> TRUE, bytes |-> <<>>]
    ELSE IF Len(s) < 4 THEN [ok |-> FALSE, bytes |-> <<>>]
    ELSE LET head == B64Quad(SubSeq(s, 1, 4))
             rest == b64decode(SubSeq(s, 5, Len(s)))
         IN  IF head = <<-1>> \/ ~rest.ok
             THEN [ok |-> FALSE, bytes |-> <<>>]
             ELSE [ok |-> TRUE, bytes |-> head \o rest.bytes]

\* ------------------------------------------------------------- the inputs
Clients == {"browser1"}

\* Image data URIs, as token sequences.
DataImage == <<"data:image">>
PngA == <<"data:image", "/", "png", ";", "base64", ",", "Q", "Q", "=", "=">>
PngB == <<"data:image", "/", "png", ";", "base64", ",", "Q", "g", "=", "=">>
\* a URL instead of a data URI
WrongPrefix == <<"http:", "/", "/", "x", "/", "a.png">>
\* data:image/png;base64 with no ',' and no payload
NoComma == <<"data:image", "/", "png", ";", "base64">>
\* data:image;base64,QQ== with no '/<subtype>'
NoSubtype == <<"data:image", ";", "base64", ",", "Q", "Q", "=", "=">>
\* data:image/png;base64,QQ with the padding missing
BadBase64 == <<"data:image", "/", "png", ";", "base64", ",", "Q", "Q">>

\* Values of a wrong type or of a wrong form, rejected before any file is opened.
MalformedImages ==
    {JStr(WrongPrefix), JStr(NoComma), JStr(NoSubtype), JNum(7)}
BeforeImageValues ==
    {JStr(PngA), JStr(BadBase64), JStr(<<>>), JNull} \cup MalformedImages
AfterImageValues == {JStr(PngA), JStr(PngB), JStr(<<>>)} \cup MalformedImages

Pothole == <<"pothole">>

\* What request.json yields: None (the body is JSON null) or a dict, given as
\* the function from its keys to their values.
NoneBody == [isDict |-> FALSE, fields |-> <<>>]
Dict(f) == [isDict |-> TRUE, fields |-> f]

\* f without the key k.
Without(f, k) == [x \in DOMAIN f \ {k} |-> f[x]]

\* The body of the spec's scenario, with latitude and longitude as integers.
GoodReport ==
    [before_image |-> JStr(PngA), description |-> JStr(Pothole),
     latitude |-> JNum(13), longitude |-> JNum(78)]

\* The bodies of POST /api/report: no dict at all; every image value in an
\* otherwise good body; a good body less one key; an empty description; a
\* zero latitude; a null longitude.
ReportBodies ==
    {NoneBody}
    \cup {Dict([GoodReport EXCEPT !.before_image = v]) : v \in BeforeImageValues}
    \cup {Dict(Without(GoodReport, k)) :
            k \in {"before_image", "description", "latitude", "longitude"}}
    \cup {Dict([GoodReport EXCEPT !.description = JStr(<<>>)]),
          Dict([GoodReport EXCEPT !.latitude = JNum(0)]),
          Dict([GoodReport EXCEPT !.longitude = JNull])}

\* The bodies of POST /admin/resolve/<id>.
ResolveBodies ==
    {NoneBody, Dict(<<>>)}
    \cup {Dict([k \in {"after_image"} |-> v]) : v \in AfterImageValues}

Usernames == {"admin", "mallory"}
Passwords == {"admin123", "guess"}
LoginForms ==
    {[k \in {"username", "password"} |->
        IF k = "username" THEN u ELSE p] : u \in Usernames, p \in Passwords}
    \cup {[k \in {"username"} |-> u] : u \in Usernames}

\* --------------------------------------------------------------- helpers
\* datetime.now().strftime('%Y%m%d_%H%M%S'): the clock cut to whole seconds.
Strftime(now) == now \div 2

\* open(filepath, 'wb'), f.write(bytes): the file is created or replaced.
WriteFile(folder, filename, bytes) ==
    [f \in DOMAIN folder \cup {filename} |->
        IF f = filename THEN bytes ELSE folder[f]]

\* The responses.
Json(status, error, report_id) ==
    [status |-> status, error |-> error, report_id |-> report_id, body |-> <<>>]
Ok(report_id) == Json(200, <<>>, report_id)
InternalServerError == Json(500, <<"Internal server error">>, 0)
Redirect(to) == Json(302, <<to>>, 0)
Page(template) == Json(200, <<template>>, 0)

\* No request has been handled since the start or the last clock tick.
NoRequest == [op |-> "none", client |-> ""]
NoResponse == Json(0, <<>>, 0)

\* The split of the data URI, the generated filename and the file write that
\* report_hazard and resolve_hazard both perform.  raised: an exception left
\* the block (ValueError: no ',' to unpack; IndexError: no '/'; binascii.Error
\* from b64decode, after open() has created or truncated the file).
DecodeAndStore(image_data, prefix, folder, now) ==
    LET parts == SplitOnce(image_data, ",")
        header == parts[1]
        base64_data == parts[2]
        mime == Split(Split(header, ";")[1], "/")
        file_extension == mime[2]
        filename == <<prefix, Strftime(now), ".", file_extension>>
        decoded == b64decode(base64_data)
    IN  IF Len(parts) # 2 \/ Len(mime) < 2
        THEN [raised |-> TRUE, filename |-> <<>>, folder |-> folder]
        ELSE IF ~decoded.ok
        THEN [raised |-> TRUE, filename |-> filename,
              folder |-> WriteFile(folder, filename, <<>>)]
        ELSE [raised |-> FALSE, filename |-> filename,
              folder |-> WriteFile(folder, filename, decoded.bytes)]

\* ------------------------------------------------------- /api/report
required_fields == <<"before_image", "description", "latitude", "longitude">>

\* `field not in data or not data[field]`
FieldMissing(data, field) ==
    \/ field \notin DOMAIN data.fields
    \/ ~Truthy(data.fields[field])

\* The first required field the validation loop finds missing, 0 if none.
RECURSIVE FirstMissing(_, _)
FirstMissing(data, i) ==
    IF i > Len(required_fields) THEN 0
    ELSE IF FieldMissing(data, required_fields[i]) THEN i
    ELSE FirstMissing(data, i + 1)

\* The row that the INSERT creates; id is the AUTOINCREMENT key, larger than
\* every key the table has held (no row is ever deleted).
NewReport(reports, filename, data, now) ==
    [id |-> Len(reports) + 1,
     before_image |-> filename,
     after_image |-> NULL,
     description |-> data.fields["description"].s,
     latitude |-> data.fields["latitude"].n,
     longitude |-> data.fields["longitude"].n,
     status |-> "Pending",
     date_reported |-> now,
     date_resolved |-> NULL]

\* The handler's outcome: the response, the table, the upload folder and
\* whether a row was inserted.
ReportOutcome(data, reports, folder, now) ==
    LET unchanged(resp) ==
            [response |-> resp, reports |-> reports, folder |-> folder,
             inserted |-> FALSE]
    IN  IF ~data.isDict THEN unchanged(InternalServerError)
        ELSE IF FirstMissing(data, 1) # 0
        THEN unchanged(Json(400, <<"Missing required field: ",
                                   required_fields[FirstMissing(data, 1)]>>, 0))
        ELSE LET before_image_data == data.fields["before_image"]
             IN  IF before_image_data.t # "str" THEN unchanged(InternalServerError)
                 ELSE IF ~StartsWith(before_image_data.s, DataImage)
                 THEN unchanged(Json(400, <<"Invalid image format">>, 0))
                 ELSE LET saved == DecodeAndStore(before_image_data.s, "hazard_",
                                                  folder, now)
                          row == NewReport(reports, saved.filename, data, now)
                      IN  IF saved.raised
                          THEN [response |-> InternalServerError,
                                reports |-> reports, folder |-> saved.folder,
                                inserted |-> FALSE]
                          ELSE [response |-> Ok(row.id),
                                reports |-> Append(reports, row),
                                folder |-> saved.folder,
                                inserted |-> TRUE]

report_hazard(c, data) ==
    \E out \in {ReportOutcome(data, hazard_reports, uploads_before, clock)} :
        /\ out.inserted => Len(hazard_reports) < MaxReports
        /\ hazard_reports' = out.reports
        /\ uploads_before' = out.folder
        /\ response' = out.response
        /\ request' = [op |-> "report", client |-> c]
        /\ UNCHANGED <<admin, session, uploads_after, clock>>

\* ------------------------------------------------------- /admin/login
\* generate_password_hash and check_password_hash of werkzeug.security.
generate_password_hash(password) == <<"hash", password>>
check_password_hash(pwhash, password) == pwhash = generate_password_hash(password)

\* The session keys the application sets; FALSE and "" stand for no key.
EmptySession == [admin_logged_in |-> FALSE, admin_username |-> ""]

\* SELECT * FROM admin WHERE username = ?, fetchone(): the rows found.
SelectAdmin(username) == {a \in admin : a.username = username}

\* The password is not verified.
CredentialsValidAnyPassword(username, password) ==
    SelectAdmin(username) # {}

\* `admin and check_password_hash(admin['password_hash'], password)`
CredentialsValid(username, password) ==
    \E a \in SelectAdmin(username) : check_password_hash(a.password_hash, password)

admin_login(c, form) ==
    /\ request' = [op |-> "login", client |-> c]
    /\ IF DOMAIN form # {"username", "password"}
       THEN \* request.form[...] raises BadRequestKeyError
            /\ response' = Json(400, <<"Bad Request">>, 0)
            /\ UNCHANGED session
       ELSE IF CredentialsValid(form["username"], form["password"])
       THEN /\ session' = [session EXCEPT ![c] =
                             [admin_logged_in |-> TRUE,
                              admin_username |-> form["username"]]]
            /\ response' = Redirect("admin_dashboard")
       ELSE /\ response' = Page("admin_login.html")
            /\ UNCHANGED session
    /\ UNCHANGED <<hazard_reports, admin, uploads_before, uploads_after, clock>>

\* ------------------------------------------------------- /admin/logout
admin_logout(c) ==
    /\ request' = [op |-> "logout", client |-> c]
    /\ session' = [session EXCEPT ![c] = EmptySession]
    /\ response' = Redirect("admin_login")
    /\ UNCHANGED <<hazard_reports, admin, uploads_before, uploads_after, clock>>

\* ---------------------------------------------------- /admin/dashboard
\* The session is not looked at.
AdminLoggedInUnchecked(sess) == TRUE

\* session.get('admin_logged_in')
AdminLoggedIn(sess) == sess.admin_logged_in

DashboardOutcome(sess) ==
    IF ~AdminLoggedIn(sess)
    THEN Redirect("admin_login")
    ELSE Page("admin_dashboard.html")

admin_dashboard(c) ==
    /\ request' = [op |-> "dashboard", client |-> c]
    /\ response' = DashboardOutcome(session[c])
    /\ UNCHANGED <<hazard_reports, admin, session, uploads_before,
                   uploads_after, clock>>

\* ------------------------------------------------ /admin/resolve/<id>
\* date_resolved is left out of the SET clause.
ResolveRowWithoutDate(row, filename, now) ==
    [row EXCEPT !.after_image = NotNull(filename),
                !.status = "Resolved"]

\* The status is toggled instead of set.
ResolveRowToggle(row, filename, now) ==
    [row EXCEPT !.after_image = NotNull(filename),
                !.status = IF row.status = "Pending" THEN "Resolved" ELSE "Pending",
                !.date_resolved = NotNull(now)]

\* SET after_image = ?, status = ?, date_resolved = ?
ResolveRow(row, filename, now) ==
    [row EXCEPT !.after_image = NotNull(filename),
                !.status = "Resolved",
                !.date_resolved = NotNull(now)]

\* The WHERE clause is left out.
UpdateReportEveryRow(reports, report_id, filename, now) ==
    [i \in 1..Len(reports) |-> ResolveRow(reports[i], filename, now)]

\* UPDATE hazard_reports ... WHERE id = ?
UpdateReport(reports, report_id, filename, now) ==
    [i \in 1..Len(reports) |->
        IF reports[i].id = report_id
        THEN ResolveRow(reports[i], filename, now)
        ELSE reports[i]]

ResolveOutcome(sess, report_id, data, reports, folder, now) ==
    LET unchanged(resp) ==
            [response |-> resp, reports |-> reports, folder |-> folder]
    IN  IF ~AdminLoggedIn(sess) THEN unchanged(Json(401, <<"Unauthorized">>, 0))
        ELSE IF ~data.isDict THEN unchanged(InternalServerError)
        ELSE LET after_image_data ==
                     IF "after_image" \in DOMAIN data.fields
                     THEN data.fields["after_image"] ELSE JNull
             IN  IF ~Truthy(after_image_data)
                 THEN unchanged(Json(400, <<"Invalid after image">>, 0))
                 ELSE IF after_image_data.t # "str"
                 THEN unchanged(InternalServerError)
                 ELSE IF ~StartsWith(after_image_data.s, DataImage)
                 THEN unchanged(Json(400, <<"Invalid after image">>, 0))
                 ELSE LET saved == DecodeAndStore(after_image_data.s, "resolved_",
                                                  folder, now)
                      IN  IF saved.raised
                          THEN [response |-> InternalServerError,
                                reports |-> reports, folder |-> saved.folder]
                          ELSE [response |-> Ok(0),
                                reports |-> UpdateReport(reports, report_id,
                                                         saved.filename, now),
                                folder |-> saved.folder]

resolve_hazard(c, report_id, data) ==
    \E out \in {ResolveOutcome(session[c], report_id, data, hazard_reports,
                                uploads_after, clock)} :
        /\ hazard_reports' = out.reports
        /\ uploads_after' = out.folder
        /\ response' = out.response
        /\ request' = [op |-> "resolve", client |-> c]
        /\ UNCHANGED <<admin, session, uploads_before, clock>>

\* ------------------------------------- /uploads/before, /uploads/after
\* send_from_directory(folder, filename): what GET /uploads/before/<filename>
\* and GET /uploads/after/<filename> answer.  They change nothing.
SendFromDirectory(folder, filename) ==
    IF filename \in DOMAIN folder
    THEN [status |-> 200, error |-> <<>>, report_id |-> 0, body |-> folder[filename]]
    ELSE Json(404, <<"Not Found">>, 0)

\* ------------------------------------------------------------ the clock
\* Time passes between two requests.
Tick ==
    /\ clock < MaxClock
    /\ clock' = clock + 1
    /\ request' = NoRequest
    /\ response' = NoResponse
    /\ UNCHANGED <<hazard_reports, admin, session, uploads_before,
                   uploads_after>>

\* ------------------------------------------------------ specification
\* After init_db(): empty hazard_reports, the default admin, empty upload
\* folders, no session.
Init ==
    /\ hazard_reports = <<>>
    /\ admin = {[username |-> "admin",
                 password_hash |-> generate_password_hash("admin123")]}
    /\ session = [c \in Clients |-> EmptySession]
    /\ uploads_before = <<>>
    /\ uploads_after = <<>>
    /\ clock = 0
    /\ request = NoRequest
    /\ response = NoResponse

Next ==
    \/ \E c \in Clients, data \in ReportBodies : report_hazard(c, data)
    \/ \E c \in Clients, form \in LoginForms : admin_login(c, form)
    \/ \E c \in Clients : admin_logout(c)
    \/ \E c \in Clients : admin_dashboard(c)
    \/ \E c \in Clients, report_id \in 1..(MaxReports + 1), data \in ResolveBodies :
          resolve_hazard(c, report_id, data)
    \/ Tick

Spec == Init /\ [][Next]_vars

\* ==================================================================
\* The claims
\* ==================================================================
ReportIds == 1..(MaxReports + 1)

\* The image data URIs of the inputs that have the form
\* data:image/<subtype>;base64,<payload> with a decodable payload.
WellFormedImages == {PngA, PngB}

\* s has the form data:image/<subtype>;base64,<payload>.
MatchesPattern(s) ==
    /\ Len(s) >= 6
    /\ s[1] = "data:image"
    /\ s[2] = "/"
    /\ s[4] = ";"
    /\ s[5] = "base64"
    /\ s[6] = ","

\* The form carries the username and the password of the account that
\* init_db seeds.
KnownCredentials(form) ==
    /\ DOMAIN form = {"username", "password"}
    /\ form["username"] = "admin"
    /\ form["password"] = "admin123"

\* The form carries an unknown username or a wrong password.
WrongCredentials(form) ==
    /\ DOMAIN form = {"username", "password"}
    /\ ~KnownCredentials(form)

\* ------------------------------------------------------------------ C1
\* C1: in every reachable state, every hazard report row has after_image
\* present and date_resolved present if and only if its status is 'Resolved'.
C1_ResolvedIffAfterImageAndDate ==
    \A i \in 1..Len(hazard_reports) :
        LET r == hazard_reports[i]
        IN  (r.after_image # NULL /\ r.date_resolved # NULL)
                <=> r.status = "Resolved"

\* A resolve request has just turned a row to Resolved.
C1_Witness ==
    /\ request.op = "resolve"
    /\ response.status = 200
    /\ \E i \in 1..Len(hazard_reports) : hazard_reports[i].status = "Resolved"

\* ------------------------------------------------------------------ C2
\* C2: every resolve request made in a session without the admin flag is
\* answered 401 Unauthorized, whatever its report id and body, changes no
\* hazard report row and writes no file to the 'after' upload directory.
C2_UnauthorizedResolveRefused ==
    [][(request'.op = "resolve" /\ ~session[request'.client].admin_logged_in)
         => /\ response'.status = 401
            /\ response'.error = <<"Unauthorized">>
            /\ hazard_reports' = hazard_reports
            /\ uploads_after' = uploads_after]_vars

\* A resolve request was refused while a Pending row existed.
C2_Witness ==
    /\ request.op = "resolve"
    /\ response.status = 401
    /\ ~session[request.client].admin_logged_in
    /\ \E i \in 1..Len(hazard_reports) : hazard_reports[i].status = "Pending"

\* ------------------------------------------------------------------ C3
\* A required field is absent, null or an empty string.
AnyFieldAbsentOrEmpty(data) ==
    \E i \in 1..Len(required_fields) :
        \/ required_fields[i] \notin DOMAIN data.fields
        \/ data.fields[required_fields[i]] \in {JNull, JStr(<<>>)}

\* C3: every report request in which any of before_image, description,
\* latitude or longitude is absent or empty/null is answered 400 'Missing
\* required field', creates no row and writes no file to the 'before' upload
\* directory.
C3_MissingFieldRejected ==
    [][\A c \in Clients, data \in ReportBodies :
         (/\ request'.op = "report"
          /\ AnyFieldAbsentOrEmpty(data)
          /\ report_hazard(c, data))
         => /\ response'.status = 400
            /\ response'.error[1] = "Missing required field: "
            /\ hazard_reports' = hazard_reports
            /\ uploads_before' = uploads_before]_vars

\* ------------------------------------------------------------------ C4
\* C4: after_image and date_resolved are absent until the report is resolved
\* and are then set exactly once: once a row has both, no later operation (a
\* further resolve of the same id included) changes either value.
C4_SetExactlyOnce ==
    [][\A i \in 1..Len(hazard_reports) :
         LET r == hazard_reports[i]
         IN  /\ r.status = "Pending" => (r.after_image = NULL /\ r.date_resolved = NULL)
             /\ (r.after_image # NULL /\ r.date_resolved # NULL)
                  => /\ hazard_reports'[i].after_image = r.after_image
                     /\ hazard_reports'[i].date_resolved = r.date_resolved]_vars

\* ------------------------------------------------------------------ C5
\* C5: every hazard report starts with status 'Pending'; once a row's status
\* is 'Resolved' it stays 'Resolved'; no row is ever deleted.
C5_PendingThenResolvedForever ==
    [][/\ Len(hazard_reports') >= Len(hazard_reports)
       /\ \A i \in 1..Len(hazard_reports) :
            /\ hazard_reports'[i].id = hazard_reports[i].id
            /\ hazard_reports[i].status = "Resolved"
                 => hazard_reports'[i].status = "Resolved"
       /\ \A i \in (Len(hazard_reports) + 1)..Len(hazard_reports') :
            hazard_reports'[i].status = "Pending"]_vars

\* A row is Resolved and a later request, not a resolve, has been handled.
C5_Witness ==
    /\ request.op \in {"report", "login", "logout", "dashboard"}
    /\ \E i \in 1..Len(hazard_reports) : hazard_reports[i].status = "Resolved"

\* ------------------------------------------------------------------ C6
\* description, latitude and longitude are supplied (a non-empty string and
\* two numbers) and before_image is a well-formed base64 image data URI.
ValidSubmission(data) ==
    /\ data.isDict
    /\ DOMAIN data.fields = {"before_image", "description", "latitude", "longitude"}
    /\ data.fields["description"].t = "str"
    /\ data.fields["description"].s # <<>>
    /\ data.fields["latitude"].t = "num"
    /\ data.fields["longitude"].t = "num"
    /\ data.fields["before_image"].t = "str"
    /\ data.fields["before_image"].s \in WellFormedImages

\* C6: every valid submission succeeds and returns an id strictly greater
\* than every id returned before, and the new row has status 'Pending' and
\* no after_image.
C6_ValidSubmissionAccepted ==
    [][\A c \in Clients, data \in ReportBodies :
         (/\ request'.op = "report"
          /\ ValidSubmission(data)
          /\ report_hazard(c, data))
         => /\ response'.status = 200
            /\ \A i \in 1..Len(hazard_reports) :
                 response'.report_id > hazard_reports[i].id
            /\ Len(hazard_reports') = Len(hazard_reports) + 1
            /\ LET r == hazard_reports'[Len(hazard_reports')]
               IN  /\ r.id = response'.report_id
                   /\ r.status = "Pending"
                   /\ r.after_image = NULL]_vars

\* ------------------------------------------------------------------ C7
\* The bytes that a data URI of the accepted form carries.
Payload(value) == b64decode(SplitOnce(value.s, ",")[2]).bytes

\* C7: after a successful report or resolve, the file under the filename
\* stored in the row holds the decoded payload of that request, and it still
\* does in every later state, whatever requests are handled in between.
C7_RoundTrip ==
    [][/\ \A c \in Clients, data \in ReportBodies :
            (/\ request'.op = "report"
             /\ report_hazard(c, data)
             /\ response'.status = 200)
            => LET f == hazard_reports'[Len(hazard_reports')].before_image
               IN  /\ f \in DOMAIN uploads_before'
                   /\ uploads_before'[f] = Payload(data.fields["before_image"])
       /\ \A c \in Clients, id \in ReportIds, data \in ResolveBodies :
            (/\ request'.op = "resolve"
             /\ resolve_hazard(c, id, data)
             /\ response'.status = 200)
            => \A i \in 1..Len(hazard_reports') :
                 hazard_reports'[i].id = id
                 => LET f == hazard_reports'[i].after_image[1]
                    IN  /\ f \in DOMAIN uploads_after'
                        /\ uploads_after'[f] = Payload(data.fields["after_image"])
       /\ \A i \in 1..Len(hazard_reports) :
            LET r == hazard_reports[i]
            IN  /\ uploads_before'[r.before_image] = uploads_before[r.before_image]
                /\ (r.after_image # NULL /\ hazard_reports'[i] = r)
                     => uploads_after'[r.after_image[1]]
                          = uploads_after[r.after_image[1]]]_vars

\* ------------------------------------------------------------------ C8
\* The image value is a string that is not of the form MatchesPattern.
ImageOfWrongForm(value) ==
    /\ value.t = "str"
    /\ value.s # <<>>
    /\ ~MatchesPattern(value.s)

\* C8: a report request whose four fields are present but whose before_image
\* does not match data:image/<subtype>;base64,<payload> is answered 400
\* 'Invalid image format' (not 500), creates no row and writes no file; a
\* resolve request of a logged-in admin with such an after_image is answered
\* 400 'Invalid after image' and changes nothing.
C8_InvalidImageRejected ==
    [][/\ \A c \in Clients, data \in ReportBodies :
            (/\ request'.op = "report"
             /\ data.isDict
             /\ ~AnyFieldAbsentOrEmpty(data)
             /\ Truthy(data.fields["latitude"])
             /\ Truthy(data.fields["longitude"])
             /\ ImageOfWrongForm(data.fields["before_image"])
             /\ report_hazard(c, data))
            => /\ response'.status = 400
               /\ response'.error = <<"Invalid image format">>
               /\ hazard_reports' = hazard_reports
               /\ uploads_before' = uploads_before
       /\ \A c \in Clients, id \in ReportIds, data \in ResolveBodies :
            (/\ request'.op = "resolve"
             /\ session[c].admin_logged_in
             /\ data.isDict
             /\ "after_image" \in DOMAIN data.fields
             /\ ImageOfWrongForm(data.fields["after_image"])
             /\ resolve_hazard(c, id, data))
            => /\ response'.status = 400
               /\ response'.error = <<"Invalid after image">>
               /\ hazard_reports' = hazard_reports
               /\ uploads_after' = uploads_after]_vars

\* ------------------------------------------------------------------ C9
\* In session sess the dashboard redirects to the login page and every
\* resolve request is refused.
AdminPagesClosed(sess) ==
    /\ DashboardOutcome(sess) = Redirect("admin_login")
    /\ \A id \in ReportIds, data \in ResolveBodies :
         ResolveOutcome(sess, id, data, hazard_reports, uploads_after, clock)
             .response.status = 401

\* The admin flag of a session is set only by a login with the username and
\* password of an account, and logout clears it.
FlagSetByLoginOnly ==
    \A c \in Clients :
        /\ (~session[c].admin_logged_in /\ session'[c].admin_logged_in)
             => /\ request'.op = "login"
                /\ \E form \in LoginForms :
                     KnownCredentials(form) /\ admin_login(c, form)
        /\ (request'.op = "logout" /\ request'.client = c)
             => ~session'[c].admin_logged_in

\* C9 as stated: a login attempt with an unknown username or a wrong password
\* never sets the admin flag, and after it the dashboard redirects to the
\* login page and resolve is refused; the flag is set only by a login whose
\* username exists and whose password verifies, and logout clears it.
C9_FailedLoginClosesAdminPages ==
    [][/\ \A c \in Clients, form \in LoginForms :
            (/\ request'.op = "login"
             /\ WrongCredentials(form)
             /\ admin_login(c, form))
            => /\ ~session[c].admin_logged_in => ~session'[c].admin_logged_in
               /\ AdminPagesClosed(session'[c])
       /\ FlagSetByLoginOnly]_vars

\* C9 as amended: a login attempt with an unknown username or a wrong password
\* leaves the session's admin flag and username as they were, and in a
\* session whose flag was not set the dashboard still redirects to the login
\* page and resolve is still refused after it; the flag is set only by a
\* login whose username exists and whose password verifies, and logout
\* clears it.
C9_FailedLoginLeavesSession ==
    [][/\ \A c \in Clients, form \in LoginForms :
            (/\ request'.op = "login"
             /\ WrongCredentials(form)
             /\ admin_login(c, form))
            => /\ session' = session
               /\ ~session[c].admin_logged_in => AdminPagesClosed(session'[c])
       /\ FlagSetByLoginOnly]_vars

\* A login attempt has just failed in a session without the flag.
C9_Witness ==
    /\ request.op = "login"
    /\ response = Page("admin_login.html")
    /\ ~session[request.client].admin_logged_in
    /\ Len(hazard_reports) > 0

====
